---- MODULE Spec2Model ----
(***************************************************************************)
(* State-machine model of the CursedWidgets toolkit (cursedwidgets/):      *)
(* TextBox, MenuSelector and InputField, each widget object held as a      *)
(* record of its fields, each handler a function from the object and a key *)
(* to the object after the call.  A Python string is a sequence of         *)
(* one-character strings; a raised Python exception is recorded in the     *)
(* object's "raised" field and ends the run, as it does in the program.    *)
(***************************************************************************)
EXTENDS Integers, Sequences, FiniteSets, TLC

VARIABLES
    tb,          \* the TextBox object
    tb_escaped,  \* history: Escape has switched off editing that was on
    rf,          \* reflow alone: a line list and the box width
    rf_text,     \* reflow alone: the text the line list was cut from
    rf_op,       \* reflow alone: the last operation applied
    ms,          \* the MenuSelector object
    ms_screen,   \* what the last MenuSelector.draw painted into its sub-window
    ms_result,   \* what the last MenuSelector.handle_input returned
    inp,         \* the InputField object
    if_args,     \* the max_length and parent width InputField was built with
    sb_done,     \* Scenario B: how many of its keys the TextBox has handled
    wm,          \* the WidgetManager object: its widget list and active_selector
    wm_pc,       \* where WidgetManager.run stands
    wm_ret,      \* what WidgetManager.run returned
    wm_tabs,     \* history: how many Tab keys run has read
    pt           \* one call of add_str_no_overflows: its locals and addstr calls

tb_vars == <<tb, tb_escaped>>
rf_vars == <<rf, rf_text, rf_op>>
ms_vars == <<ms, ms_screen, ms_result>>
if_vars == <<inp, if_args>>
sb_vars == <<sb_done>>
wm_vars == <<wm, wm_pc, wm_ret, wm_tabs>>
pt_vars == <<pt>>
vars == <<tb_vars, rf_vars, ms_vars, if_vars, sb_vars, wm_vars, pt_vars>>

\* ------------------------------------------------------------------ bounds
\* Largest TextBox height and width passed to the constructor.
MaxHeight == 5
MaxWidth == 5
\* Longest initial text and longest text the model lets the buffer grow to.
MaxInitText == 2
MaxText == 4
\* Caps on the two TextBox counters the code itself never limits.
MaxFirstLine == 4
MaxCursorX == 7
\* Most lines of a line list handed to the reflow on its own.
MaxReflowLines == 3
\* Columns of the parent window (the widgets sit at x = 0).
WinCols == 10
\* Most options, and largest height and width, of a MenuSelector.
MaxOptions == 3
MaxMenuHeight == 3
MaxMenuWidth == 5
\* Largest max_length asked of an InputField.
MaxReqLength == 4
\* Columns of a parent window too narrow for a labelled InputField.
NarrowCols == 4
\* Largest TextBox width of Scenario B (box width 5).
MaxScenarioWidth == 7
\* Most widgets handed to a WidgetManager, most Tab keys it reads, and the
\* sizes of the widgets it is given: TextBox width and text, MenuSelector
\* options and height, InputField max_length.
MaxWidgets == 3
MaxTabs == 3
MaxMgrWidth == 4
MaxMgrText == 2
MaxMgrOptions == 2
MaxMgrMenuHeight == 1
MaxMgrLength == 1
\* The windows add_str_no_overflows paints on, the longest string it is given
\* and the most extra lines it is allowed.
MaxPaintHeight == 5
MaxPaintWidth == 5
MaxPaintLen == 6
MaxExtraLines == 3

\* ------------------------------------------------------------- key codes
KEY_DOWN == 258
KEY_UP == 259
KEY_LEFT == 260
KEY_RIGHT == 261
KEY_BACKSPACE == 263
ESCAPE == 27
ENTER == 10
TAB == 9

\* constants.py
LEFT == 0
CENTER == 1
RIGHT == 2
MANUAL == 3
VERTICAL == 0
HORIZONTAL == 1

None == "None"

\* ------------------------------------------------------- Python helpers
Min(a, b) == IF a < b THEN a ELSE b
Max(a, b) == IF a > b THEN a ELSE b

\* s[a:b] for a, b >= 0.
PySlice(s, a, b) ==
    LET lo == Min(a, Len(s))
        hi == Min(b, Len(s))
    IN  IF lo >= hi THEN <<>> ELSE SubSeq(s, lo + 1, hi)

\* s[a:] for a >= 0.
PyFrom(s, a) == PySlice(s, a, Len(s))

\* Mutant of PyDropLast: cuts two characters.
PyDropLast_two(s) == IF Len(s) <= 1 THEN <<>> ELSE SubSeq(s, 1, Len(s) - 2)

\* s[:-1].
PyDropLast(s) == IF Len(s) = 0 THEN <<>> ELSE SubSeq(s, 1, Len(s) - 1)

\* Whether seq[i] raises IndexError: Python accepts -len <= i < len.
PyIndexRaises(seq, i) == i >= Len(seq) \/ i < 0 - Len(seq)

\* The 1-based position of seq[i] for an index Python accepts.
PyPos(seq, i) == IF i >= 0 THEN i + 1 ELSE Len(seq) + i + 1

\* "".join(lines).
RECURSIVE Join(_)
Join(ls) == IF ls = <<>> THEN <<>> ELSE Head(ls) \o Join(Tail(ls))

\* The printable ASCII characters, code points 32..126 in order (the three
\* a TLA+ string cannot hold are spelled out).
AsciiTable ==
    <<" ", "!", "DQUOTE", "#", "$", "%", "&", "'", "(", ")", "*", "+", ",",
      "-", ".", "/", "0", "1", "2", "3", "4", "5", "6", "7", "8", "9", ":",
      ";", "<", "=", ">", "?", "@", "A", "B", "C", "D", "E", "F", "G", "H",
      "I", "J", "K", "L", "M", "N", "O", "P", "Q", "R", "S", "T", "U", "V",
      "W", "X", "Y", "Z", "[", "BACKSLASH", "]", "^", "_", "BACKTICK", "a",
      "b", "c", "d", "e", "f", "g", "h", "i", "j", "k", "l", "m", "n", "o",
      "p", "q", "r", "s", "t", "u", "v", "w", "x", "y", "z", "{", "|", "}",
      "~">>

\* The code points of the accented-Latin set of is_key_printable.
AccentedKeys == {241, 209, 225, 233, 237, 243, 250, 193, 201, 205, 211, 218}

\* chr(key), for the keys is_key_printable accepts.
chr(key) ==
    IF 32 <= key /\ key <= 126 THEN AsciiTable[key - 31]
    ELSE "U+" \o ToString(key)

\* is_key_printable without the lower end of the ASCII range.
is_key_printable_low(key) == key <= 126 \/ key \in AccentedKeys

is_key_printable(key) == (32 <= key /\ key <= 126) \/ key \in AccentedKeys

\* ----------------------------------------------------------------- TextBox
\* Mutant of TB_split_text: the line count rounds down, so a last partial
\* line is cut off.
TB_split_text_floor(text, box_width) ==
    LET n_lines == Len(text) \div box_width
        lines == [i \in 1..n_lines |->
                     PySlice(text, (i - 1) * box_width, i * box_width)]
    IN  IF lines = <<>> THEN << <<>> >> ELSE lines

\* TextBox._split_text
TB_split_text(text, box_width) ==
    LET n_lines == (Len(text) + box_width + 1) \div box_width
        lines == [i \in 1..n_lines |->
                     PySlice(text, (i - 1) * box_width, i * box_width)]
    IN  IF lines = <<>> THEN << <<>> >> ELSE lines

\* TextBox._create_window: the width the sub-window gets.
TB_create_window(width, max_w) == Min(width, max_w)

\* TextBox.__init__
TB_init(height, width, text, edit_key, max_w) ==
    [height |-> height,
     width |-> TB_create_window(width, max_w),
     box_height |-> height - 2,
     box_width |-> width - 2,
     lines |-> TB_split_text(text, width - 2),
     edit_key |-> edit_key,
     cursor_x |-> 1,
     cursor_y |-> 1,
     first_line_idx |-> 0,
     edited |-> FALSE,
     editable |-> (edit_key = None),
     raised |-> None]

\* TextBox.get_text
TB_get_text(s) == Join(s.lines)

\* TextBox._move: the clamp of the cursor into the sub-window's interior.
TB_move(s) ==
    [s EXCEPT !.cursor_y = Max(1, Min(s.cursor_y, s.height - 2)),
              !.cursor_x = Max(1, Min(s.cursor_x, s.width - 2))]

\* TextBox.draw
TB_draw(s, is_active) == IF is_active THEN TB_move(s) ELSE s

\* TextBox._recompute_lines
TB_recompute_lines(s) ==
    [s EXCEPT !.lines = TB_split_text(Join(s.lines), s.box_width)]

\* TextBox._is_last_line
TB_is_last_line(s) == s.first_line_idx + s.cursor_y = Len(s.lines)

\* TextBox._key_up_callback without the floor of 1 on cursor_y.
TB_key_up_callback_free(s) ==
    LET scroll == s.cursor_y = 1 /\ s.first_line_idx > 0
    IN  [s EXCEPT !.first_line_idx = IF scroll THEN @ - 1 ELSE @,
                  !.edited = IF scroll THEN TRUE ELSE @,
                  !.cursor_y = @ - 1]

\* TextBox._key_up_callback
TB_key_up_callback(s) ==
    LET scroll == s.cursor_y = 1 /\ s.first_line_idx > 0
    IN  [s EXCEPT !.first_line_idx = IF scroll THEN @ - 1 ELSE @,
                  !.edited = IF scroll THEN TRUE ELSE @,
                  !.cursor_y = Max(1, s.cursor_y - 1)]

\* TextBox._key_down_callback
TB_key_down_callback(s) ==
    LET is_last_line_minus_one ==
            s.first_line_idx + s.cursor_y = Len(s.lines) - 1
        scroll == s.cursor_y = s.box_height /\ ~TB_is_last_line(s)
    IN  IF Len(s.lines) = 1 THEN s
        ELSE IF is_last_line_minus_one
                /\ s.cursor_x - 1 > Len(s.lines[Len(s.lines)])
        THEN s
        ELSE [s EXCEPT !.first_line_idx = IF scroll THEN @ + 1 ELSE @,
                       !.edited = IF scroll THEN TRUE ELSE @,
                       !.cursor_y = Min(s.box_height, s.cursor_y + 1)]

\* TextBox._key_left_callback
TB_key_left_callback(s) ==
    IF s.cursor_x = 1 /\ s.cursor_y = 1 /\ s.first_line_idx = 0 THEN s
    ELSE IF s.cursor_x = 1 /\ s.cursor_y = 1
    THEN [s EXCEPT !.first_line_idx = @ - 1,
                   !.edited = TRUE,
                   !.cursor_x = s.box_width]
    ELSE IF s.cursor_x = 1
    THEN [s EXCEPT !.cursor_x = s.box_width, !.cursor_y = @ - 1]
    ELSE [s EXCEPT !.cursor_x = @ - 1]

\* TextBox._key_right_callback
TB_key_right_callback(s) ==
    IF TB_is_last_line(s) /\ s.cursor_x - 1 = Len(s.lines[Len(s.lines)])
    THEN s
    ELSE IF s.cursor_x = s.box_width /\ s.cursor_y = s.box_height
    THEN [s EXCEPT !.first_line_idx = @ + 1,
                   !.edited = TRUE,
                   !.cursor_x = 1]
    ELSE IF s.cursor_x = s.box_width
    THEN [s EXCEPT !.cursor_x = 1, !.cursor_y = @ + 1]
    ELSE [s EXCEPT !.cursor_x = @ + 1]

\* Mutant of TB_key_esc_callback: Escape leaves the flag alone.
TB_key_esc_callback_noop(s) == s

\* TextBox._key_esc_callback
TB_key_esc_callback(s) ==
    IF s.edit_key # None THEN [s EXCEPT !.editable = FALSE] ELSE s

\* Mutant of TB_check_editable_flag: any character switches editing on.
TB_check_editable_flag_any(s, char) ==
    IF ~s.editable THEN [s EXCEPT !.editable = TRUE] ELSE s

\* TextBox._check_editable_flag: the object after the call; the call returns
\* the value the flag had before it.
TB_check_editable_flag(s, char) ==
    IF ~s.editable THEN [s EXCEPT !.editable = (s.edit_key = char)] ELSE s

\* TextBox._add_char with a cursor that only ever moves right.
TB_add_char_nowrap(s, char) ==
    LET line_idx == s.first_line_idx + s.cursor_y - 1
        pos == PyPos(s.lines, line_idx)
        line == s.lines[pos]
        new_line == PySlice(line, 0, s.cursor_x - 1) \o <<char>>
                        \o PyFrom(line, s.cursor_x - 1)
        placed == [s EXCEPT !.lines[pos] = new_line, !.cursor_x = @ + 1]
    IN  IF ~s.editable THEN TB_check_editable_flag(s, char)
        ELSE IF PyIndexRaises(s.lines, line_idx)
        THEN [s EXCEPT !.raised = "IndexError"]
        ELSE [TB_recompute_lines(placed) EXCEPT !.edited = TRUE]

\* TextBox._add_char
TB_add_char(s, char) ==
    LET line_idx == s.first_line_idx + s.cursor_y - 1
        pos == PyPos(s.lines, line_idx)
        line == s.lines[pos]
        new_line == PySlice(line, 0, s.cursor_x - 1) \o <<char>>
                        \o PyFrom(line, s.cursor_x - 1)
        placed == [s EXCEPT !.lines[pos] = new_line]
        moved ==
            IF s.cursor_x < s.box_width
            THEN [placed EXCEPT !.cursor_x = @ + 1]
            ELSE IF s.cursor_y < s.box_height
            THEN [placed EXCEPT !.cursor_x = 1, !.cursor_y = @ + 1]
            ELSE [placed EXCEPT !.first_line_idx = @ + 1, !.cursor_x = 1]
    IN  IF ~s.editable THEN TB_check_editable_flag(s, char)
        ELSE IF PyIndexRaises(s.lines, line_idx)
        THEN [s EXCEPT !.raised = "IndexError"]
        ELSE [TB_recompute_lines(moved) EXCEPT !.edited = TRUE]

\* The column TextBox._remove_char leaves the cursor in after it has removed
\* the last character of the previous line.
TB_remove_char_prev_col(s) == s.width

\* TextBox._remove_char
TB_remove_char(s) ==
    LET cur_idx == s.first_line_idx + s.cursor_y - 1
        cur_pos == PyPos(s.lines, cur_idx)
        cur == s.lines[cur_pos]
        prev_idx == s.first_line_idx + s.cursor_y - 2
        prev_pos == PyPos(s.lines, prev_idx)
        prev == s.lines[prev_pos]
        after ==
            IF s.cursor_x > 1
            THEN [s EXCEPT !.lines[cur_pos] =
                               PySlice(cur, 0, s.cursor_x - 2)
                                   \o PyFrom(cur, s.cursor_x - 1),
                           !.cursor_x = @ - 1]
            ELSE IF s.cursor_x = 1
            THEN [s EXCEPT !.lines[prev_pos] = PyDropLast(prev),
                           !.cursor_x = TB_remove_char_prev_col(s),
                           !.cursor_y = @ - 1]
            ELSE s
    IN  IF ~s.editable THEN s
        ELSE IF s.cursor_x = 1 /\ s.cursor_y = 1 THEN s
        ELSE IF s.cursor_x > 1 /\ PyIndexRaises(s.lines, cur_idx)
        THEN [s EXCEPT !.raised = "IndexError"]
        ELSE IF s.cursor_x = 1 /\ PyIndexRaises(s.lines, prev_idx)
        THEN [s EXCEPT !.raised = "IndexError"]
        ELSE [TB_recompute_lines(after) EXCEPT !.edited = TRUE]

\* The keys of TextBox.key_callbacks (TextBox._register_key_callbacks).
TB_key_callbacks ==
    {KEY_UP, KEY_DOWN, KEY_LEFT, KEY_RIGHT, KEY_BACKSPACE, ESCAPE}

\* TextBox.handle_input
TB_handle_input(s, key) ==
    IF key \in TB_key_callbacks
    THEN CASE key = KEY_UP -> TB_key_up_callback(s)
           [] key = KEY_DOWN -> TB_key_down_callback(s)
           [] key = KEY_LEFT -> TB_key_left_callback(s)
           [] key = KEY_RIGHT -> TB_key_right_callback(s)
           [] key = KEY_BACKSPACE -> TB_remove_char(s)
           [] key = ESCAPE -> TB_key_esc_callback(s)
    ELSE IF is_key_printable(key) THEN TB_add_char(s, chr(key))
    ELSE s

\* ---------------------------------------------------- TextBox: the machine
\* The characters the model types, and the keys it presses.
TB_PrintableKeys == {97, 101}
TB_Keys == TB_key_callbacks \cup TB_PrintableKeys \cup {ENTER}
TB_Chars == {chr(k) : k \in TB_PrintableKeys}

\* All strings over TB_Chars of length at most n.
Strings(n) == UNION {[1..k -> TB_Chars] : k \in 0..n}

\* The model's caps on the counters the code leaves unbounded.
TB_InCaps(s) ==
    /\ Len(Join(s.lines)) <= MaxText
    /\ s.first_line_idx <= MaxFirstLine
    /\ s.cursor_x <= MaxCursorX

TB_Init ==
    /\ \E height \in 3..MaxHeight, width \in 3..MaxWidth,
          text \in Strings(MaxInitText), edit_key \in {None, chr(101)} :
          tb = TB_init(height, width, text, edit_key, WinCols)
    /\ tb_escaped = FALSE

\* One key handled by TextBox.handle_input; tb_escaped records that Escape
\* has switched off editing that was on.
TB_Key ==
    /\ tb.raised = None
    /\ \E key \in TB_Keys :
          /\ tb' = TB_handle_input(tb, key)
          /\ tb_escaped' =
                (tb_escaped
                   \/ (key = ESCAPE /\ tb.editable /\ tb.edit_key # None))
    /\ TB_InCaps(tb')
    /\ UNCHANGED <<rf_vars, ms_vars, if_vars, sb_vars, wm_vars, pt_vars>>

\* One call of TextBox.draw.
TB_Draw ==
    /\ tb.raised = None
    /\ \E is_active \in BOOLEAN : tb' = TB_draw(tb, is_active)
    /\ UNCHANGED <<tb_escaped, rf_vars, ms_vars, if_vars, sb_vars, wm_vars, pt_vars>>

\* A TextBox nobody uses: the value of tb in the other specifications.
TB_Idle ==
    /\ tb = TB_init(3, 3, <<>>, None, WinCols)
    /\ tb_escaped = FALSE

\* ------------------------------------------------------ reflow on its own
\* The line lists the reflow is applied to: every list of at most
\* MaxReflowLines lines of at most MaxInitText characters.
RF_LineLists ==
    UNION {[1..n -> Strings(MaxInitText)] : n \in 1..MaxReflowLines}

RF_Init ==
    /\ \E width \in 3..MaxWidth, ls \in RF_LineLists :
          /\ rf = [lines |-> ls, box_width |-> width - 2]
          /\ rf_text = Join(ls)
    /\ rf_op = "init"

\* self.lines = self._split_text(text), as in TextBox.__init__.
RF_Split ==
    /\ rf' = [rf EXCEPT !.lines = TB_split_text(rf_text, rf.box_width)]
    /\ rf_op' = "split"
    /\ UNCHANGED <<rf_text, tb_vars, ms_vars, if_vars, sb_vars, wm_vars, pt_vars>>

\* TextBox._recompute_lines on the current line list.
RF_Recompute ==
    /\ rf' = TB_recompute_lines(rf)
    /\ rf_op' = "recompute"
    /\ UNCHANGED <<rf_text, tb_vars, ms_vars, if_vars, sb_vars, wm_vars, pt_vars>>

RF_Idle ==
    /\ rf = [lines |-> << <<>> >>, box_width |-> 1]
    /\ rf_text = <<>>
    /\ rf_op = "idle"

\* ------------------------------------------------------------ LayoutEngine
\* sum(len(string) for string in strings)
RECURSIVE SumLen(_)
SumLen(strings) ==
    IF strings = <<>> THEN 0 ELSE Len(Head(strings)) + SumLen(Tail(strings))

\* The columns of strings laid side by side from column start, gap apart:
\* the loop "positions.append((start_line, next_start_x));
\* next_start_x += len(string) + spacing".
RowPositions(start_line, strings, start, gap) ==
    [i \in 1..Len(strings) |->
        <<start_line, start + SumLen(SubSeq(strings, 1, i - 1)) + (i - 1) * gap>>]

\* string_painter.compute_strs_h_left
compute_strs_h_left(win_w, start_line, strings, orientation) ==
    IF orientation = VERTICAL
    THEN [i \in 1..Len(strings) |-> <<start_line + (i - 1), 0>>]
    ELSE RowPositions(start_line, strings, 0, 1)

\* string_painter.compute_strs_h_right
compute_strs_h_right(win_w, start_line, strings, orientation) ==
    IF orientation = VERTICAL
    THEN [i \in 1..Len(strings) |->
             <<start_line + (i - 1), win_w - Len(strings[i])>>]
    ELSE RowPositions(start_line, strings,
                      win_w - SumLen(strings) - 1 * (Len(strings) - 1), 1)

\* string_painter.compute_strs_h_centered
compute_strs_h_centered(win_w, start_line, strings, orientation) ==
    IF orientation = VERTICAL
    THEN [i \in 1..Len(strings) |->
             <<start_line + (i - 1), (win_w - Len(strings[i])) \div 2>>]
    ELSE LET spacing == (win_w - SumLen(strings)) \div (Len(strings) + 1)
         IN  RowPositions(start_line, strings, spacing, spacing)

\* A value a Python function returns: Nothing stands for None.
Nothing == <<>>
Some(v) == <<v>>

\* string_painter.compute_strs_h_aligned
compute_strs_h_aligned(win_w, start_line, strings, orientation, alignment) ==
    IF alignment = LEFT
    THEN Some(compute_strs_h_left(win_w, start_line, strings, orientation))
    ELSE IF alignment = RIGHT
    THEN Some(compute_strs_h_right(win_w, start_line, strings, orientation))
    ELSE IF alignment = CENTER
    THEN Some(compute_strs_h_centered(win_w, start_line, strings,
                                      orientation))
    ELSE Nothing

\* ------------------------------------------------------------ MenuSelector
\* MenuSelector._create_window: the width the sub-window gets.
MS_create_window(width, max_w) == Min(width, max_w)

\* MenuSelector.__init__
MS_init(options, height, width, orientation, alignment, max_w) ==
    [options |-> options,
     height |-> height,
     width |-> MS_create_window(width, max_w),
     orientation |-> orientation,
     alignment |-> alignment,
     first_option_idx |-> 0,
     selected |-> 0,
     raised |-> None]

\* last_option_idx as MenuSelector._handle_key_down and MenuSelector.draw
\* compute it.
MS_last_option_idx(s) ==
    Min(s.first_option_idx + s.height - 1, Len(s.options))

\* MenuSelector._handle_key_up that never scrolls the window back.
MS_handle_key_up_noscroll(s) ==
    IF s.orientation = VERTICAL /\ s.selected > 0
    THEN [s EXCEPT !.selected = @ - 1]
    ELSE s

\* MenuSelector._handle_key_up
MS_handle_key_up(s) ==
    IF s.orientation = VERTICAL /\ s.selected > 0
    THEN LET selected == s.selected - 1
         IN  [s EXCEPT !.selected = selected,
                       !.first_option_idx =
                           IF selected < s.first_option_idx
                           THEN selected ELSE @]
    ELSE s

\* Mutant of MS_handle_key_down: the window scrolls one option early.
MS_handle_key_down_early(s) ==
    LET max_idx == Len(s.options) - 1
    IN  IF s.orientation = VERTICAL /\ s.selected < max_idx
        THEN LET selected == s.selected + 1
             IN  [s EXCEPT !.selected = selected,
                           !.first_option_idx =
                               IF selected >= MS_last_option_idx(s)
                               THEN @ + 1 ELSE @]
        ELSE s

\* MenuSelector._handle_key_down
MS_handle_key_down(s) ==
    LET max_idx == Len(s.options) - 1
    IN  IF s.orientation = VERTICAL /\ s.selected < max_idx
        THEN LET selected == s.selected + 1
             IN  [s EXCEPT !.selected = selected,
                           !.first_option_idx =
                               IF selected > MS_last_option_idx(s)
                               THEN @ + 1 ELSE @]
        ELSE s

\* MenuSelector.handle_input: the object after the call.
MS_handle_input(s, key) ==
    LET max_idx == Len(s.options) - 1
    IN  IF key = KEY_UP THEN MS_handle_key_up(s)
        ELSE IF key = KEY_DOWN THEN MS_handle_key_down(s)
        ELSE IF key = KEY_LEFT /\ s.orientation = HORIZONTAL
                /\ s.selected > 0
        THEN [s EXCEPT !.selected = @ - 1]
        ELSE IF key = KEY_RIGHT /\ s.orientation = HORIZONTAL
                /\ s.selected < max_idx
        THEN [s EXCEPT !.selected = @ + 1]
        ELSE s

\* MenuSelector.handle_input: the value the call returns.
MS_handle_input_result(s, key) ==
    IF key = KEY_UP \/ key = KEY_DOWN THEN Nothing
    ELSE IF key = KEY_LEFT /\ s.orientation = HORIZONTAL /\ s.selected > 0
    THEN Nothing
    ELSE IF key = KEY_RIGHT /\ s.orientation = HORIZONTAL
            /\ s.selected < Len(s.options) - 1
    THEN Nothing
    ELSE IF key = ENTER THEN Some(s.selected)
    ELSE Nothing

\* display_options of MenuSelector.draw.
MS_display_options(s) ==
    IF s.orientation = VERTICAL
    THEN PySlice(s.options, s.first_option_idx, MS_last_option_idx(s) + 1)
    ELSE s.options

\* option_coords of MenuSelector.draw.
MS_option_coords(s) ==
    compute_strs_h_aligned(s.width, 0, MS_display_options(s),
                           s.orientation, s.alignment)

\* MenuSelector.draw: whether option_coords[i] raises (None is not
\* subscriptable).
MS_draw_raises(s) ==
    MS_option_coords(s) = Nothing /\ MS_display_options(s) # <<>>

\* MenuSelector.draw: the addstr calls made after the clear, in order; idx is
\* the loop's i that is compared with selected.
MS_draw_screen(s, is_active) ==
    IF MS_draw_raises(s) THEN <<>>
    ELSE LET display_options == MS_display_options(s)
             option_coords == MS_option_coords(s)[1]
         IN  [j \in 1..Len(display_options) |->
                LET i == IF s.orientation = VERTICAL
                         THEN (j - 1) + s.first_option_idx ELSE j - 1
                IN  [y |-> option_coords[j][1],
                     x |-> option_coords[j][2],
                     text |-> display_options[j],
                     idx |-> i,
                     reverse |-> (i = s.selected /\ is_active)]]

\* MenuSelector.draw: the object after the call.
MS_draw(s, is_active) ==
    IF MS_draw_raises(s) THEN [s EXCEPT !.raised = "TypeError"] ELSE s

\* ----------------------------------------------- MenuSelector: the machine
MS_OptionPool == {<<"A">>, <<"B", "B">>}
MS_OptionLists == UNION {[1..n -> MS_OptionPool] : n \in 1..MaxOptions}
MS_Keys == {KEY_UP, KEY_DOWN, KEY_LEFT, KEY_RIGHT, ENTER, ESCAPE}

MS_Init ==
    /\ \E options \in MS_OptionLists, height \in 1..MaxMenuHeight,
          width \in 4..MaxMenuWidth,
          orientation \in {VERTICAL, HORIZONTAL},
          alignment \in {LEFT, CENTER, RIGHT, MANUAL} :
          ms = MS_init(options, height, width, orientation, alignment,
                       WinCols)
    /\ ms_screen = <<>>
    /\ ms_result = Nothing

\* One key handled by MenuSelector.handle_input.
MS_Key ==
    /\ ms.raised = None
    /\ \E key \in MS_Keys :
          /\ ms' = MS_handle_input(ms, key)
          /\ ms_result' = MS_handle_input_result(ms, key)
    /\ UNCHANGED <<ms_screen, tb_vars, rf_vars, if_vars, sb_vars, wm_vars, pt_vars>>

\* One call of MenuSelector.draw.
MS_Draw ==
    /\ ms.raised = None
    /\ \E is_active \in BOOLEAN :
          /\ ms' = MS_draw(ms, is_active)
          /\ ms_screen' = MS_draw_screen(ms, is_active)
    /\ UNCHANGED <<ms_result, tb_vars, rf_vars, if_vars, sb_vars, wm_vars, pt_vars>>

MS_Idle ==
    /\ ms = MS_init(<< <<"A">> >>, 1, 4, VERTICAL, LEFT, WinCols)
    /\ ms_screen = <<>>
    /\ ms_result = Nothing

\* -------------------------------------------------------------- InputField
\* InputField._create_window: the width the sub-window gets.
IF_win_width(max_length, label, spacing, win_cols) ==
    Min(max_length + Len(label) + spacing + 1, win_cols)

\* InputField._create_window without the column kept for the terminator.
IF_max_length_full(max_length, label, spacing, win_cols) ==
    LET adjusted ==
            IF_win_width(max_length, label, spacing, win_cols)
                - Len(label) - spacing
    IN  IF adjusted < 0 THEN 0 ELSE adjusted

\* InputField._create_window: the adjusted max_length.
IF_max_length(max_length, label, spacing, win_cols) ==
    LET adjusted ==
            IF_win_width(max_length, label, spacing, win_cols)
                - Len(label) - spacing - 1
    IN  IF adjusted < 0 THEN 0 ELSE adjusted

\* InputField.__init__
IF_init(label, is_password, max_length, spacing, win_cols) ==
    [label |-> label,
     is_password |-> is_password,
     max_length |-> IF_max_length(max_length, label, spacing, win_cols),
     spacing |-> spacing,
     win_width |-> IF_win_width(max_length, label, spacing, win_cols),
     text |-> <<>>,
     value |-> <<>>]

\* Mutant of IF_handle_input: a key is taken while len(text) <= max_length.
IF_handle_input_le(s, key) ==
    IF is_key_printable(key) /\ Len(s.text) <= s.max_length
    THEN [s EXCEPT !.text = @ \o <<IF ~s.is_password THEN chr(key) ELSE "*">>,
                   !.value = @ \o <<chr(key)>>]
    ELSE IF key = KEY_BACKSPACE
    THEN [s EXCEPT !.text = PyDropLast(@), !.value = PyDropLast(@)]
    ELSE s

\* InputField.handle_input with a Backspace that trims only the shown text.
IF_handle_input_drift(s, key) ==
    IF is_key_printable(key) /\ Len(s.text) < s.max_length
    THEN [s EXCEPT !.text = @ \o <<IF ~s.is_password THEN chr(key) ELSE "*">>,
                   !.value = @ \o <<chr(key)>>]
    ELSE IF key = KEY_BACKSPACE
    THEN [s EXCEPT !.text = PyDropLast(@)]
    ELSE s

\* InputField.handle_input
IF_handle_input(s, key) ==
    IF is_key_printable(key) /\ Len(s.text) < s.max_length
    THEN [s EXCEPT !.text = @ \o <<IF ~s.is_password THEN chr(key) ELSE "*">>,
                   !.value = @ \o <<chr(key)>>]
    ELSE IF key = KEY_BACKSPACE
    THEN [s EXCEPT !.text = PyDropLast(@), !.value = PyDropLast(@)]
    ELSE s

\* InputField.draw on a field whose sub-window starts at column x of its
\* parent: the two addstr calls on the sub-window, as <<line, column,
\* string>>, and the column of the parent the caret is moved to when active.
\* It assigns no field of the object.
IF_draw(s, x, is_active) ==
    [calls |-> << <<0, 0, s.label>>, <<0, Len(s.label) + 1, s.text>> >>,
     cursor_x |->
         IF is_active
         THEN Some(Max(0, Min(x + Len(s.label) + 1 + Len(s.text),
                              x + s.win_width - 1)))
         ELSE Nothing]

\* ------------------------------------------------- InputField: the machine
IF_Labels == {<<>>, <<"N", "a", "m", "e", ":">>}
IF_PrintableKeys == {97, 101}
IF_Keys == IF_PrintableKeys \cup {KEY_BACKSPACE, ENTER, ESCAPE}

IF_ParentCols == {NarrowCols, WinCols}

IF_Init ==
    \E label \in IF_Labels, is_password \in BOOLEAN,
       max_length \in 0..MaxReqLength, spacing \in 0..1,
       win_cols \in IF_ParentCols :
       /\ inp = IF_init(label, is_password, max_length, spacing, win_cols)
       /\ if_args = [max_length |-> max_length, win_cols |-> win_cols]

\* One key handled by InputField.handle_input.
IF_Key ==
    /\ \E key \in IF_Keys : inp' = IF_handle_input(inp, key)
    /\ UNCHANGED <<if_args, tb_vars, rf_vars, ms_vars, sb_vars, wm_vars, pt_vars>>

IF_Idle ==
    /\ inp = IF_init(<<>>, FALSE, 0, 1, WinCols)
    /\ if_args = [max_length |-> 0, win_cols |-> WinCols]

\* ---------------------------------------------- TextBox: typing Scenario B
\* The key codes of "HELLOWORLD".
ScenarioKeys == <<72, 69, 76, 76, 79, 87, 79, 82, 76, 68>>
ScenarioText == [i \in 1..Len(ScenarioKeys) |-> chr(ScenarioKeys[i])]

\* An editable TextBox with no text, of any height and width up to box
\* width MaxScenarioWidth - 2.
SB_Init ==
    /\ \E height \in 3..MaxHeight, width \in 3..MaxScenarioWidth :
          tb = TB_init(height, width, <<>>, None, WinCols)
    /\ tb_escaped = FALSE
    /\ sb_done = 0

\* TextBox.handle_input on the next key of the scenario.
SB_Key ==
    /\ tb.raised = None
    /\ sb_done < Len(ScenarioKeys)
    /\ tb' = TB_handle_input(tb, ScenarioKeys[sb_done + 1])
    /\ sb_done' = sb_done + 1
    /\ UNCHANGED <<tb_escaped, rf_vars, ms_vars, if_vars, wm_vars, pt_vars>>

SB_Idle == sb_done = 0

\* ------------------------------------------------------------ WidgetManager
\* TextBox.handle_input and InputField.handle_input: the value returned.
TB_handle_input_result(s, key) == Nothing
IF_handle_input_result(s, key) == Nothing

\* WidgetManager.__init__; a widget is named by its kind, "tb", "ms" or
\* "inp", and is the object held in the variable of that name.
WM_init(widgets) == [widgets |-> widgets, active_selector |-> 0]

\* The widget objects a manager works on, as one record; raised is the
\* exception, if any, that a call on one of them has let through.
\* log lists the calls run makes on its widgets from here on, in order.
WM_objects ==
    [tb |-> tb, ms |-> ms, ms_screen |-> ms_screen, inp |-> inp,
     raised |-> None, log |-> <<>>]

\* The objects with one more call on the log: draw(is_active) or
\* handle_input(key) on the widget at index widget of the list.
WM_draw_call(o, widget, is_active) ==
    [o EXCEPT !.log = Append(@, [call |-> "draw", widget |-> widget,
                                 is_active |-> is_active])]
WM_handle_input_call(o, widget, key) ==
    [o EXCEPT !.log = Append(@, [call |-> "handle_input", widget |-> widget,
                                 key |-> key])]
\* key = stdscr.getch()
WM_getch_call(o, key) ==
    [o EXCEPT !.log = Append(@, [call |-> "getch", key |-> key])]

\* selector.draw(is_active=...) on the widget of the given kind.
WM_draw(o, kind, is_active) ==
    CASE kind = "tb" -> [o EXCEPT !.tb = TB_draw(@, is_active)]
      [] kind = "ms" ->
            [o EXCEPT !.ms = MS_draw(@, is_active),
                      !.ms_screen = MS_draw_screen(o.ms, is_active),
                      !.raised = IF MS_draw_raises(o.ms)
                                 THEN "TypeError" ELSE @]
      [] kind = "inp" -> o

\* WidgetManager.draw_all: the loop from widget i (0-based) on.
RECURSIVE WM_draw_from(_, _, _)
WM_draw_from(o, m, i) ==
    IF i >= Len(m.widgets) \/ o.raised # None THEN o
    ELSE WM_draw_from(
             WM_draw(WM_draw_call(o, i, i = m.active_selector),
                     m.widgets[i + 1], i = m.active_selector),
             m, i + 1)

\* A draw_all that leaves out the first widget of the list.
WM_draw_all_skip_first(o, m) == WM_draw_from(o, m, 1)

\* WidgetManager.draw_all
WM_draw_all(o, m) == WM_draw_from(o, m, 0)

\* self.widgets[self.active_selector].handle_input(key): the objects after
\* the call.
\* The objects once the TextBox has become t.
WM_handled_by_tb(o, t) == [o EXCEPT !.tb = t, !.raised = t.raised]

WM_handle_input(o, kind, key) ==
    CASE kind = "tb" -> WM_handled_by_tb(o, TB_handle_input(o.tb, key))
      [] kind = "ms" -> [o EXCEPT !.ms = MS_handle_input(@, key)]
      [] kind = "inp" -> [o EXCEPT !.inp = IF_handle_input(@, key)]

\* self.widgets[self.active_selector].handle_input(key): the value returned.
WM_handle_input_result(o, kind, key) ==
    CASE kind = "tb" -> TB_handle_input_result(o.tb, key)
      [] kind = "ms" -> MS_handle_input_result(o.ms, key)
      [] kind = "inp" -> IF_handle_input_result(o.inp, key)

\* The Tab branch of run's loop that steps active_selector back.
WM_next_selector_back(m) ==
    (m.active_selector + Len(m.widgets) - 1) % Len(m.widgets)

\* The Tab branch of run's loop: the new active_selector.
WM_next_selector(m) == (m.active_selector + 1) % Len(m.widgets)

\* run after the draw_all that ends a pass of its loop has left objects o2:
\* back at getch, unless a draw raised.
WM_drawn(o2, m) ==
    [o |-> o2, m |-> m,
     pc |-> IF o2.raised # None THEN "raised" ELSE "getch",
     ret |-> Nothing]

\* run after handle_input has left objects o1 and returned result.
WM_dispatched(o1, m, result) ==
    IF o1.raised # None
    THEN [o |-> o1, m |-> m, pc |-> "raised", ret |-> Nothing]
    ELSE IF result # Nothing
    THEN [o |-> o1, m |-> m, pc |-> "returned",
          ret |-> Some(<<m.active_selector, result[1]>>)]
    ELSE WM_drawn(WM_draw_all(o1, m), m)

\* run after the Tab branch has made the manager m2.
WM_tabbed(o, m2) == WM_drawn(WM_draw_all(o, m2), m2)

\* One pass of the loop of WidgetManager.run with getch() = key: the
\* objects and the manager after it, where run then stands ("getch" for the
\* next read, "returned", "raised"), and the value returned.
\* run after getch has returned key and left the objects o.
WM_read(o, m, key) ==
    IF key = TAB
    THEN WM_tabbed(o, [m EXCEPT !.active_selector = WM_next_selector(m)])
    ELSE WM_dispatched(
             WM_handle_input(WM_handle_input_call(o, m.active_selector, key),
                             m.widgets[m.active_selector + 1], key), m,
             WM_handle_input_result(o, m.widgets[m.active_selector + 1], key))

\* The pass in which the Tab branch also hands the key to the active widget.
WM_run_step_tab_through(o, m, key) ==
    IF key = TAB
    THEN WM_tabbed(
             WM_handle_input(
                 WM_handle_input_call(WM_getch_call(o, key),
                                      m.active_selector, key),
                 m.widgets[m.active_selector + 1], key),
             [m EXCEPT !.active_selector = WM_next_selector(m)])
    ELSE WM_read(WM_getch_call(o, key), m, key)

WM_run_step(o, m, key) == WM_read(WM_getch_call(o, key), m, key)

\* ---------------------------------------------- WidgetManager: the machine
\* Key codes no widget and no manager gives a meaning to: getch's "no
\* input" value, NUL, KEY_HOME and KEY_RESIZE.
UnrecognizedKeys == {-1, 0, 262, 410}

\* The keys read by run other than Tab.
WM_Keys == TB_Keys \cup MS_Keys \cup IF_Keys \cup UnrecognizedKeys

WM_Kinds == <<"inp", "ms", "tb">>

\* The widget lists: at most MaxWidgets widgets, each kind at most once, in
\* the order of WM_Kinds.
WM_WidgetLists ==
    LET picks == {p \in UNION {[1..n -> 1..Len(WM_Kinds)] :
                                  n \in 1..MaxWidgets} :
                     \A i \in 1..(Len(p) - 1) : p[i] < p[i + 1]}
    IN  {[i \in 1..Len(p) |-> WM_Kinds[p[i]]] : p \in picks}

WM_Uses(widgets, kind) == \E i \in 1..Len(widgets) : widgets[i] = kind

\* The widgets handed to a manager.
WM_TextBoxes ==
    {TB_init(MaxHeight, MaxMgrWidth, <<>>, edit_key, WinCols) :
        edit_key \in {None, chr(101)}}

WM_Menus ==
    {MS_init(options, height, MaxMenuWidth, orientation, alignment, WinCols) :
        options \in {[i \in 1..MaxMgrOptions |-> <<"A">>]},
        height \in {MaxMgrMenuHeight},
        orientation \in {VERTICAL, HORIZONTAL},
        alignment \in {LEFT, MANUAL}}

WM_InCaps(o) ==
    /\ Len(Join(o.tb.lines)) <= MaxMgrText
    /\ o.tb.first_line_idx <= MaxFirstLine
    /\ o.tb.cursor_x <= MaxCursorX

WM_Init ==
    /\ \E widgets \in WM_WidgetLists :
          /\ wm = WM_init(widgets)
          /\ IF WM_Uses(widgets, "tb")
             THEN tb \in WM_TextBoxes /\ tb_escaped = FALSE
             ELSE TB_Idle
          /\ IF WM_Uses(widgets, "ms")
             THEN ms \in WM_Menus /\ ms_screen = <<>> /\ ms_result = Nothing
             ELSE MS_Idle
          /\ IF WM_Uses(widgets, "inp")
             THEN \E max_length \in 0..MaxMgrLength :
                     /\ inp = IF_init(<<>>, FALSE, max_length, 1, WinCols)
                     /\ if_args = [max_length |-> max_length,
                                   win_cols |-> WinCols]
             ELSE IF_Idle
    /\ wm_pc = "start"
    /\ wm_ret = Nothing
    /\ wm_tabs = 0

\* The objects of o become the widgets' state.
WM_Install(o) ==
    /\ tb' = o.tb
    /\ ms' = o.ms
    /\ ms_screen' = o.ms_screen
    /\ inp' = o.inp

\* run up to its first getch: draw_all.
WM_Start ==
    /\ wm_pc = "start"
    /\ \E o \in {WM_draw_all(WM_objects, wm)} :
           /\ WM_Install(o)
           /\ wm_pc' = IF o.raised # None THEN "raised" ELSE "getch"
    /\ UNCHANGED <<wm, wm_ret, wm_tabs, tb_escaped, ms_result, if_args,
                   rf_vars, sb_vars, pt_vars>>

\* One pass of run's loop in which getch returns Tab.
WM_Tab ==
    /\ wm_pc = "getch"
    /\ wm_tabs < MaxTabs
    /\ \E r \in {WM_run_step(WM_objects, wm, TAB)} :
           /\ WM_Install(r.o)
           /\ wm' = r.m
           /\ wm_pc' = r.pc
           /\ wm_ret' = r.ret
    /\ wm_tabs' = wm_tabs + 1
    /\ UNCHANGED <<tb_escaped, ms_result, if_args, rf_vars, sb_vars, pt_vars>>

\* One pass of run's loop in which getch returns another key.
WM_Dispatch ==
    /\ wm_pc = "getch"
    /\ \E key \in WM_Keys :
          \E r \in {WM_run_step(WM_objects, wm, key)} :
          LET kind == wm.widgets[wm.active_selector + 1]
          IN  /\ WM_InCaps(r.o)
              /\ WM_Install(r.o)
              /\ wm' = r.m
              /\ wm_pc' = r.pc
              /\ wm_ret' = r.ret
              /\ ms_result' =
                    IF kind = "ms" THEN MS_handle_input_result(ms, key)
                    ELSE ms_result
              /\ tb_escaped' =
                    (tb_escaped
                       \/ (kind = "tb" /\ key = ESCAPE /\ tb.editable
                             /\ tb.edit_key # None))
    /\ UNCHANGED <<wm_tabs, if_args, rf_vars, sb_vars, pt_vars>>

\* No WidgetManager in use: the value of its variables in the other
\* specifications.
WM_Idle ==
    /\ wm = WM_init(<<"inp">>)
    /\ wm_pc = "start"
    /\ wm_ret = Nothing
    /\ wm_tabs = 0

\* ------------------------------------------- string_painter: bounded paint
\* The index a Python slice bound i denotes in s: negative bounds count from
\* the end, and every bound is clamped to 0..len(s).
PySliceIndex(s, i) == IF i < 0 THEN Max(Len(s) + i, 0) ELSE Min(i, Len(s))

\* s[:b] and s[a:] for any integers a, b.
PyUpTo(s, b) == SubSeq(s, 1, PySliceIndex(s, b))
PyAfter(s, a) == SubSeq(s, PySliceIndex(s, a) + 1, Len(s))

\* string_painter.add_str_align: whether its addstr call raises.  The three
\* aligned painters leave attr out of the call when it is None; the MANUAL
\* branch passes it on, and window.addstr(line, col, string, None) raises
\* TypeError.
add_str_align_raises(alignment, attr) == alignment = MANUAL /\ attr = None

\* string_painter.add_str_align: the addstr call it makes, as
\* <<line, column, string>>.
add_str_align(win_w, line, col, string, alignment) ==
    IF alignment = LEFT THEN <<line, 1, string>>
    ELSE IF alignment = CENTER
    THEN <<line, (win_w - Len(string)) \div 2, string>>
    ELSE IF alignment = RIGHT THEN <<line, win_w - Len(string) - 1, string>>
    ELSE <<line, col, string>>

\* available_cols of add_str_no_overflows.
PT_available_cols(win_w, col, alignment) ==
    IF alignment = MANUAL THEN win_w - 2 - col ELSE win_w - 2

\* add_str_align(window, line, col, string[:available_cols], alignment, attr)
\* as add_str_no_overflows calls it, with its own line and string.
PT_paint(s) ==
    IF add_str_align_raises(s.alignment, s.attr)
    THEN [s EXCEPT !.raised = "TypeError", !.pc = "raised"]
    ELSE [s EXCEPT !.calls = Append(s.calls,
                                 add_str_align(s.win_w, s.line, s.col,
                                     PyUpTo(s.string, s.available_cols),
                                     s.alignment)),
                   !.pc = "loop"]

\* add_str_no_overflows up to its loop: the first add_str_align.
PT_enter(s) == PT_paint(s)

\* The condition of the while loop, and of the break inside it.
PT_loop_test(s) == Len(s.string) > s.available_cols /\ s.extra_lines > 0
PT_break_test(s) == s.line + 1 >= s.win_h - s.extra_lines

\* One pass of the loop body that does not break.
PT_iterate(s) ==
    PT_paint([s EXCEPT !.string = PyAfter(s.string, s.available_cols),
                       !.line = s.line + 1,
                       !.extra_lines = s.extra_lines - 1,
                       !.passes = s.passes + 1])

\* return line + 1
PT_return(s) == [s EXCEPT !.ret = Some(s.line + 1), !.pc = "done"]

\* A call add_str_no_overflows(window, line, col, string, extra_lines,
\* alignment, attr) about to run, on a window win_h rows by win_w columns.
PT_call(win_h, win_w, line, col, string, extra_lines, alignment, attr) ==
    [win_h |-> win_h, win_w |-> win_w, col |-> col, alignment |-> alignment,
     attr |-> attr, raised |-> None,
     args |-> [line |-> line, string |-> string,
               extra_lines |-> extra_lines],
     available_cols |-> PT_available_cols(win_w, col, alignment),
     line |-> line, string |-> string, extra_lines |-> extra_lines,
     calls |-> <<>>, passes |-> 0, ret |-> Nothing, pc |-> "call"]

\* The strings painted: the prefixes of a text of distinct characters,
\* "abcdef" for six.
PaintText == [i \in 1..MaxPaintLen |-> chr(96 + i)]
PT_Strings == {SubSeq(PaintText, 1, n) : n \in 0..MaxPaintLen}

\* The attr argument: its default None, or a curses attribute.
PT_Attrs == {None, "A_BOLD"}

\* Windows at least 2 columns wide; line and col are a row and a column of
\* the window.
PT_Init ==
    \E win_h \in 1..MaxPaintHeight, win_w \in 2..MaxPaintWidth,
       string \in PT_Strings, extra_lines \in 0..MaxExtraLines,
       alignment \in {LEFT, CENTER, RIGHT, MANUAL}, attr \in PT_Attrs :
        \E line \in 0..(win_h - 1), col \in 0..(win_w - 1) :
            pt = PT_call(win_h, win_w, line, col, string, extra_lines,
                         alignment, attr)

PT_Enter ==
    /\ pt.pc = "call"
    /\ pt' = PT_enter(pt)
    /\ UNCHANGED <<tb_vars, rf_vars, ms_vars, if_vars, sb_vars, wm_vars>>

PT_Iterate ==
    /\ pt.pc = "loop"
    /\ PT_loop_test(pt) /\ ~PT_break_test(pt)
    /\ pt' = PT_iterate(pt)
    /\ UNCHANGED <<tb_vars, rf_vars, ms_vars, if_vars, sb_vars, wm_vars>>

PT_Return ==
    /\ pt.pc = "loop"
    /\ ~PT_loop_test(pt) \/ PT_break_test(pt)
    /\ pt' = PT_return(pt)
    /\ UNCHANGED <<tb_vars, rf_vars, ms_vars, if_vars, sb_vars, wm_vars>>

PT_Idle == pt = PT_call(1, 2, 0, 0, <<>>, 0, LEFT, None)

\* --------------------------------------------------------- specifications
TextBoxInit == TB_Init /\ RF_Idle /\ MS_Idle /\ IF_Idle /\ SB_Idle /\ WM_Idle /\ PT_Idle
TextBoxNext == TB_Key \/ TB_Draw
SpecTextBox == TextBoxInit /\ [][TextBoxNext]_vars

ReflowInit == RF_Init /\ TB_Idle /\ MS_Idle /\ IF_Idle /\ SB_Idle /\ WM_Idle /\ PT_Idle
ReflowNext == RF_Split \/ RF_Recompute
SpecReflow == ReflowInit /\ [][ReflowNext]_vars

MenuInit == MS_Init /\ TB_Idle /\ RF_Idle /\ IF_Idle /\ SB_Idle /\ WM_Idle /\ PT_Idle
MenuNext == MS_Key \/ MS_Draw
SpecMenu == MenuInit /\ [][MenuNext]_vars

InputInit == IF_Init /\ TB_Idle /\ RF_Idle /\ MS_Idle /\ SB_Idle /\ WM_Idle /\ PT_Idle
InputNext == IF_Key
SpecInput == InputInit /\ [][InputNext]_vars

ScenarioInit == SB_Init /\ RF_Idle /\ MS_Idle /\ IF_Idle /\ WM_Idle /\ PT_Idle
ScenarioNext == SB_Key
SpecScenario == ScenarioInit /\ [][ScenarioNext]_vars

ManagerInit == WM_Init /\ RF_Idle /\ SB_Idle /\ PT_Idle
ManagerNext == WM_Start \/ WM_Tab \/ WM_Dispatch
SpecManager == ManagerInit /\ [][ManagerNext]_vars

PaintInit ==
    PT_Init /\ TB_Idle /\ RF_Idle /\ MS_Idle /\ IF_Idle /\ SB_Idle /\ WM_Idle
PaintNext == PT_Enter \/ PT_Iterate \/ PT_Return
SpecPaint == PaintInit /\ [][PaintNext]_vars

\* ------------------------------------------------------------------ claims
\* new is old with the one character c put in somewhere.
IsInsertion(old, new, c) ==
    \E i \in 0..Len(old) :
        new = SubSeq(old, 1, i) \o <<c>> \o SubSeq(old, i + 1, Len(old))

\* new is old with one character taken out somewhere.
IsRemoval(old, new) ==
    \E i \in 1..Len(old) :
        new = SubSeq(old, 1, i - 1) \o SubSeq(old, i + 1, Len(old))

SameCursor(s, t) ==
    /\ s.cursor_y = t.cursor_y
    /\ s.cursor_x = t.cursor_x
    /\ s.first_line_idx = t.first_line_idx

\* C1: in every reachable state of a TextBox the cursor's absolute line
\* index first_line_idx + cursor_y - 1 is the index of an existing line, and
\* no key handler has indexed outside the line list.
C1_CursorLineValid ==
    LET idx == tb.first_line_idx + tb.cursor_y - 1
    IN  /\ 0 <= idx
        /\ idx < Len(tb.lines)
        /\ tb.raised = None

\* C2: the lines the reflow produces, from a text or from any line list cut
\* from it, concatenate to exactly that text.
C2_ReflowInvariance == Join(rf.lines) = rf_text

C2_Witness ==
    /\ rf_op = "recompute"
    /\ Len(rf_text) > rf.box_width
    /\ Len(rf.lines) >= 2

\* C3: in every reachable state of an editable TextBox, handling a printable
\* character and then Backspace restores the text and the cursor position
\* (cursor_y, cursor_x, first_line_idx).
C3_RoundTrip ==
    (tb.editable /\ tb.raised = None) =>
        \A key \in TB_PrintableKeys :
            LET typed == TB_handle_input(tb, key)
                back == TB_handle_input(typed, KEY_BACKSPACE)
            IN  typed.raised = None =>
                    /\ TB_get_text(back) = TB_get_text(tb)
                    /\ SameCursor(back, tb)

\* C4 as claimed: once Escape has switched editing off, the box is never
\* editable again.
C4_OneShot == tb_escaped => ~tb.editable

\* C4 as amended: Escape switches editing off; from then on, while the box is
\* non-editable, no key changes the buffer and the only key that makes the
\* box editable again is the activation key.
C4_OffUntilActivationKey ==
    (tb.edit_key # None /\ tb.raised = None) =>
        /\ ~TB_handle_input(tb, ESCAPE).editable
        /\ (tb_escaped /\ ~tb.editable) =>
               \A key \in TB_Keys :
                   LET t == TB_handle_input(tb, key)
                   IN  /\ t.lines = tb.lines
                       /\ t.editable =>
                              (is_key_printable(key) /\ chr(key) = tb.edit_key)

C4_Witness ==
    /\ tb_escaped
    /\ ~tb.editable
    /\ tb.edited
    /\ Len(TB_get_text(tb)) > 0

\* C5: a TextBox with an activation key starts non-editable; while it is
\* non-editable a printable key or Backspace leaves buffer and cursor as they
\* are, and the only step to editable is a printable key equal to the
\* activation key, which is not inserted.
C5_GateStep ==
    ~tb.editable =>
        /\ \A key \in TB_Keys :
               LET t == TB_handle_input(tb, key)
               IN  /\ (is_key_printable(key) \/ key = KEY_BACKSPACE) =>
                          (t.lines = tb.lines /\ SameCursor(t, tb))
                   /\ t.editable =>
                          (is_key_printable(key) /\ chr(key) = tb.edit_key)
        /\ \A is_active \in BOOLEAN : ~TB_draw(tb, is_active).editable

C5_EditGate == (tb.edit_key # None => ~tb.editable) /\ []C5_GateStep

C5_Witness ==
    /\ tb.edit_key # None
    /\ tb.editable
    /\ ~tb.edited
    /\ Len(TB_get_text(tb)) > 0

\* C6: the text changes only so: a printable key handled by an editable box
\* adds exactly that character (the other characters keep their order), an
\* editable Backspace removes at most one character, and every other key, a
\* draw and the reflow leave the text as it is.
C6_ContentKept ==
    tb.raised = None =>
        LET old == TB_get_text(tb)
        IN  /\ \A key \in TB_Keys :
                   LET t == TB_handle_input(tb, key)
                       new == TB_get_text(t)
                   IN  IF is_key_printable(key) /\ tb.editable
                          /\ t.raised = None
                       THEN IsInsertion(old, new, chr(key))
                       ELSE IF key = KEY_BACKSPACE /\ tb.editable
                       THEN new = old \/ IsRemoval(old, new)
                       ELSE new = old
            /\ \A is_active \in BOOLEAN :
                   TB_get_text(TB_draw(tb, is_active)) = old
            /\ TB_get_text(TB_recompute_lines(tb)) = old

C6_Witness ==
    /\ tb.edited
    /\ tb.editable
    /\ tb.first_line_idx > 0
    /\ Len(TB_get_text(tb)) = MaxText

\* C7: in every reachable state, also between a key and the next draw,
\* 1 <= cursor_y <= box_height and 1 <= cursor_x <= box_width.
C7_CursorInBox ==
    /\ 1 <= tb.cursor_y /\ tb.cursor_y <= tb.box_height
    /\ 1 <= tb.cursor_x /\ tb.cursor_x <= tb.box_width

\* C8: for a vertical MenuSelector with n >= 1 options and height >= 1, after
\* any keys 0 <= selected <= n - 1 and
\* 0 <= first_option_idx <= max(0, n - height).
C8_MenuBounds ==
    ms.orientation = VERTICAL =>
        LET n == Len(ms.options)
        IN  /\ 0 <= ms.selected /\ ms.selected <= n - 1
            /\ 0 <= ms.first_option_idx
            /\ ms.first_option_idx <= Max(0, n - ms.height)

C8_Witness ==
    /\ ms.orientation = VERTICAL
    /\ ms.first_option_idx > 0
    /\ ms.first_option_idx = Len(ms.options) - ms.height
    /\ ms.selected = Len(ms.options) - 1

\* C9: for a vertical MenuSelector, after any keys
\* first_option_idx <= selected <= min(first_option_idx + height - 1, n - 1),
\* and draw paints exactly the options with the indices in that range, in
\* order, at most height of them, the selected one alone in reverse video and
\* only when the widget is active.
C9_SelectionVisible ==
    (ms.orientation = VERTICAL /\ ms.raised = None) =>
        LET n == Len(ms.options)
            first == ms.first_option_idx
            last == Min(first + ms.height - 1, n - 1)
        IN  /\ first <= ms.selected /\ ms.selected <= last
            /\ \A is_active \in BOOLEAN :
                   LET painted == MS_draw_screen(ms, is_active)
                   IN  /\ MS_draw(ms, is_active).raised = None
                       /\ Len(painted) = last - first + 1
                       /\ Len(painted) <= ms.height
                       /\ \A j \in 1..Len(painted) :
                              /\ painted[j].idx = first + j - 1
                              /\ painted[j].text = ms.options[first + j]
                              /\ painted[j].reverse <=>
                                     (painted[j].idx = ms.selected
                                        /\ is_active)

\* C10: after any keys len(_value) <= max_length, and a printable key handled
\* when len(_value) = max_length leaves both buffers as they are.
C10_InputBound ==
    /\ Len(inp.value) <= inp.max_length
    /\ Len(inp.value) = inp.max_length =>
           \A key \in IF_PrintableKeys :
               LET t == IF_handle_input(inp, key)
               IN  t.text = inp.text /\ t.value = inp.value

C10_Witness ==
    /\ Len(inp.value) = inp.max_length
    /\ inp.max_length >= 2

\* C11: the two buffers of an InputField never drift: after any keys text and
\* _value have the same length; in a field that is not a password field they
\* are equal; in a password field text is "*" repeated len(_value) times,
\* and _value holds the typed characters in order: a key changes _value only
\* by appending that key's own character or by dropping the last one.
C11_BuffersAligned ==
    /\ Len(inp.text) = Len(inp.value)
    /\ ~inp.is_password => inp.text = inp.value
    /\ inp.is_password => \A i \in 1..Len(inp.text) : inp.text[i] = "*"
    /\ \A i \in 1..Len(inp.value) :
           \E key \in IF_PrintableKeys : inp.value[i] = chr(key)
    /\ \A key \in IF_Keys :
           LET t == IF_handle_input(inp, key)
           IN  /\ Len(t.text) = Len(t.value)
               /\ \/ t.value = inp.value
                  \/ is_key_printable(key) /\ t.value = inp.value \o <<chr(key)>>
                  \/ /\ key = KEY_BACKSPACE
                     /\ inp.value = t.value \o <<inp.value[Len(inp.value)]>>

C11_Witness ==
    /\ inp.is_password
    /\ Len(inp.value) >= 2
    /\ inp.value[1] # inp.value[2]
    /\ inp.text = <<"*", "*">>

\* C15: construction leaves max_length = subwindow width - len(label) -
\* spacing - 1, or 0 when that is negative, the subwindow width being the
\* smaller of requested max_length + len(label) + spacing + 1 and the parent
\* window's width; so max_length never exceeds the requested value, and with
\* label "Name:", spacing 1 and a subwindow 10 wide it is 3 and a fourth
\* printable key is rejected.  No key changes any of these fields.
C15_Capacity ==
    LET requested == if_args.max_length
        room == inp.win_width - Len(inp.label) - inp.spacing - 1
    IN  /\ inp.win_width = Min(requested + Len(inp.label) + inp.spacing + 1,
                               if_args.win_cols)
        /\ inp.max_length = Max(room, 0)
        /\ inp.max_length <= requested
        /\ (inp.label = <<"N", "a", "m", "e", ":">> /\ inp.spacing = 1
              /\ inp.win_width = 10) =>
               /\ inp.max_length = 3
               /\ Len(inp.text) = 3 =>
                      \A key \in IF_PrintableKeys :
                          IF_handle_input(inp, key) = inp
        /\ \A key \in IF_Keys :
               LET t == IF_handle_input(inp, key)
               IN  /\ t.max_length = inp.max_length
                   /\ t.win_width = inp.win_width

C15_Witness ==
    /\ inp.label = <<"N", "a", "m", "e", ":">>
    /\ inp.spacing = 1
    /\ inp.win_width = 10
    /\ if_args.max_length = 4
    /\ Len(inp.value) = 3

\* C18: in every reachable state and for every key, MenuSelector.handle_input
\* is the stated transition: vertical Up lowers selected when it is above 0
\* and pulls first_option_idx down to it; vertical Down raises selected when
\* it is below n - 1 and adds 1 to first_option_idx when selected passes
\* min(first_option_idx + height - 1, n - 1); horizontal Left and Right move
\* selected by one within [0, n - 1] and first_option_idx stays 0; Up and
\* Down in a horizontal menu, Left and Right in a vertical one, and Enter
\* change nothing.  Options [A, B, C], height 2, vertical: Down, Down gives
\* selected = 2, first_option_idx = 1.
C18_Transitions ==
    /\ \A key \in MS_Keys :
           LET n == Len(ms.options)
               t == MS_handle_input(ms, key)
               vertical == ms.orientation = VERTICAL
               horizontal == ms.orientation = HORIZONTAL
               up == ms.selected - 1
               down == ms.selected + 1
               last == Min(ms.first_option_idx + ms.height - 1, n - 1)
               expected ==
                   IF key = KEY_UP /\ vertical /\ ms.selected > 0
                   THEN [ms EXCEPT !.selected = up,
                                   !.first_option_idx =
                                       IF up < @ THEN up ELSE @]
                   ELSE IF key = KEY_DOWN /\ vertical /\ ms.selected < n - 1
                   THEN [ms EXCEPT !.selected = down,
                                   !.first_option_idx =
                                       IF down > last THEN @ + 1 ELSE @]
                   ELSE IF key = KEY_LEFT /\ horizontal
                   THEN [ms EXCEPT !.selected = Max(0, up)]
                   ELSE IF key = KEY_RIGHT /\ horizontal
                   THEN [ms EXCEPT !.selected = Min(n - 1, down)]
                   ELSE ms
           IN  /\ t = expected
               /\ horizontal => t.first_option_idx = 0
    /\ LET start == MS_init(<<<<"A">>, <<"B">>, <<"C">>>>, 2, MaxMenuWidth,
                            VERTICAL, LEFT, WinCols)
           end == MS_handle_input(MS_handle_input(start, KEY_DOWN), KEY_DOWN)
       IN  end.selected = 2 /\ end.first_option_idx = 1

C18_Witness ==
    /\ ms.orientation = VERTICAL
    /\ Len(ms.options) = 3
    /\ ms.height = 2
    /\ ms.selected = 2
    /\ ms.first_option_idx = 1

\* C19: in an editable TextBox, Backspace with cursor_x = 1 in a state that
\* is not document start (cursor_y > 1 or first_line_idx > 0) removes the
\* last character of the previous absolute line, first_line_idx + cursor_y -
\* 2, and leaves the cursor at the end of that line: its absolute line is
\* the previous line and cursor_x is one past what is left of it.
C19_DeleteAtColumnOne ==
    LET prev == tb.first_line_idx + tb.cursor_y - 2
        t == TB_handle_input(tb, KEY_BACKSPACE)
        left == PyDropLast(tb.lines[prev + 1])
    IN  (/\ tb.raised = None
         /\ tb.editable
         /\ tb.cursor_x = 1
         /\ tb.cursor_y > 1 \/ tb.first_line_idx > 0
         /\ prev + 1 \in 1..Len(tb.lines)
         /\ tb.lines[prev + 1] # <<>>) =>
            /\ t.raised = None
            /\ TB_get_text(t) =
                   TB_get_text([tb EXCEPT !.lines[prev + 1] = left])
            /\ t.first_line_idx + t.cursor_y - 1 = prev
            /\ t.cursor_x = Len(left) + 1

\* C20: in an editable TextBox, in every reachable state with cursor_x > 1,
\* Backspace removes exactly the character just before the cursor on the
\* current absolute line, so that the text is one character shorter, takes 1
\* off cursor_x, and leaves cursor_y and first_line_idx as they were.
C20_DeleteInsideLine ==
    LET idx == tb.first_line_idx + tb.cursor_y - 1
        t == TB_handle_input(tb, KEY_BACKSPACE)
        line == tb.lines[idx + 1]
        cut == SubSeq(line, 1, tb.cursor_x - 2)
                   \o SubSeq(line, tb.cursor_x, Len(line))
    IN  (tb.raised = None /\ tb.editable /\ tb.cursor_x > 1) =>
            /\ t.raised = None
            /\ idx + 1 \in 1..Len(tb.lines)
            /\ tb.cursor_x - 1 <= Len(line)
            /\ TB_get_text(t) = TB_get_text([tb EXCEPT !.lines[idx + 1] = cut])
            /\ Len(TB_get_text(t)) = Len(TB_get_text(tb)) - 1
            /\ t.cursor_x = tb.cursor_x - 1
            /\ t.cursor_y = tb.cursor_y
            /\ t.first_line_idx = tb.first_line_idx

\* C14: an editable TextBox with box width 5 and no text that has handled
\* the ten keys of "HELLOWORLD" has lines exactly ["HELLO", "WORLD"] and its
\* cursor at row 2, column 6.
C14_ScenarioB ==
    (tb.box_width = 5 /\ sb_done = Len(ScenarioKeys)) =>
        /\ tb.lines = <<SubSeq(ScenarioText, 1, 5), SubSeq(ScenarioText, 6, 10)>>
        /\ tb.cursor_y = 2
        /\ tb.cursor_x = 6

\* C14, amended: while the keys of "HELLOWORLD" are typed into an editable
\* empty TextBox nothing is raised, the text is the part typed so far and
\* the cursor stands just after it, wrapped at the box width and never past
\* it, so that a draw changes nothing; with box width 5 the box ends with
\* lines ["HELLO", "WORLD", ""] and the cursor at column 1 of the third
\* line, which is row 3 when the box is at least 3 high.
C14_ScenarioBWrapped ==
    /\ tb.raised = None
    /\ TB_get_text(tb) = SubSeq(ScenarioText, 1, sb_done)
    /\ (tb.first_line_idx + tb.cursor_y - 1) * tb.box_width
           + tb.cursor_x - 1 = sb_done
    /\ tb.cursor_x \in 1..tb.box_width
    /\ tb.cursor_y \in 1..tb.box_height
    /\ \A is_active \in BOOLEAN : TB_draw(tb, is_active) = tb
    /\ (tb.box_width = 5 /\ sb_done = Len(ScenarioKeys)) =>
           /\ tb.lines = <<SubSeq(ScenarioText, 1, 5),
                           SubSeq(ScenarioText, 6, 10), <<>>>>
           /\ tb.cursor_x = 1
           /\ tb.first_line_idx + tb.cursor_y - 1 = 2
           /\ tb.box_height >= 3 =>
                  tb.cursor_y = 3 /\ tb.first_line_idx = 0

C14_Witness ==
    /\ tb.box_width = 5
    /\ tb.box_height = 3
    /\ sb_done = Len(ScenarioKeys)
    /\ Len(tb.lines) = 3

\* C12: a WidgetManager of n >= 1 widgets starts with active_selector = 0;
\* after k Tab keys, with whatever other keys between them, active_selector
\* is k mod n; it is always within 0..n-1, a Tab key moves it to (k + 1) mod
\* n, and no other key changes it.
C12_FocusCycling ==
    LET n == Len(wm.widgets)
    IN  /\ n >= 1
        /\ wm.active_selector = wm_tabs % n
        /\ wm.active_selector \in 0..(n - 1)
        /\ WM_run_step(WM_objects, wm, TAB).m.active_selector
               = (wm_tabs + 1) % n
        /\ \A key \in WM_Keys :
               WM_run_step(WM_objects, wm, key).m.active_selector
                   = wm.active_selector

C12_Witness ==
    /\ Len(wm.widgets) = 3
    /\ wm_tabs = 3
    /\ wm.active_selector = 0
    /\ wm_pc = "getch"
    /\ inp.text # <<>>
    /\ ms.selected > 0

\* C13: WidgetManager.run ends only by returning, and it returns exactly
\* when a key other than Tab, dispatched to the active widget, gives a value
\* that is not None; it then returns (active_selector, that value).  That
\* happens only for Enter on an active MenuSelector, the value being its
\* selected index; a TextBox or an InputField returns None for every key,
\* so while one of them is active run goes on to its next getch.
C13_Termination ==
    LET active == wm.active_selector
        kind == wm.widgets[active + 1]
    IN  /\ wm_pc # "raised"
        /\ wm_pc = "returned" =>
               kind = "ms" /\ wm_ret = Some(<<active, ms.selected>>)
        /\ wm_pc = "getch" =>
               /\ WM_run_step(WM_objects, wm, TAB).pc = "getch"
               /\ \A key \in WM_Keys :
                      LET r == WM_run_step(WM_objects, wm, key)
                          result == WM_handle_input_result(WM_objects, kind, key)
                      IN  /\ r.pc \in {"getch", "returned"}
                          /\ r.pc = "returned" <=> result # Nothing
                          /\ r.pc = "returned" <=> (key = ENTER /\ kind = "ms")
                          /\ r.pc = "returned" =>
                                 r.ret = Some(<<active, ms.selected>>)
                          /\ kind \in {"tb", "inp"} =>
                                 result = Nothing /\ r.pc = "getch"

\* C16: in every reachable state of an InputField, a MenuSelector and a
\* TextBox, handle_input on a key code that is not printable and is not
\* Tab, Enter, Escape, Backspace or an arrow raises nothing, returns None and
\* leaves every field of the widget as it was.
C16_UnrecognizedIgnored ==
    \A key \in UnrecognizedKeys :
        /\ ~is_key_printable(key)
        /\ key \notin {TAB, ENTER, ESCAPE, KEY_BACKSPACE,
                       KEY_UP, KEY_DOWN, KEY_LEFT, KEY_RIGHT}
        /\ IF_handle_input(inp, key) = inp
        /\ IF_handle_input_result(inp, key) = Nothing
        /\ MS_handle_input(ms, key) = ms
        /\ MS_handle_input_result(ms, key) = Nothing
        /\ TB_handle_input(tb, key) = tb
        /\ TB_handle_input_result(tb, key) = Nothing

C16_Witness ==
    /\ Len(wm.widgets) = 3
    /\ wm_pc = "getch"
    /\ inp.text # <<>>
    /\ ms.selected = 1
    /\ tb.editable
    /\ TB_get_text(tb) # <<>>
    /\ tb.cursor_y = 2

\* C17: the boundary cases leave the widget's state entirely unchanged and
\* raise nothing: InputField Backspace on an empty buffer and a printable
\* key at full capacity (max_length = 0 included); MenuSelector Up at
\* selected = 0 and Down at selected = n - 1; TextBox Up at cursor_y = 1
\* with first_line_idx = 0; TextBox Left and Backspace at document start.
C17_BoundaryNoOps ==
    /\ inp.text = <<>> => IF_handle_input(inp, KEY_BACKSPACE) = inp
    /\ Len(inp.text) = inp.max_length =>
           \A key \in IF_PrintableKeys : IF_handle_input(inp, key) = inp
    /\ ms.selected = 0 => MS_handle_input(ms, KEY_UP) = ms
    /\ ms.selected = Len(ms.options) - 1 =>
           MS_handle_input(ms, KEY_DOWN) = ms
    /\ (tb.cursor_y = 1 /\ tb.first_line_idx = 0) =>
           TB_handle_input(tb, KEY_UP) = tb
    /\ (tb.cursor_y = 1 /\ tb.cursor_x = 1 /\ tb.first_line_idx = 0) =>
           /\ TB_handle_input(tb, KEY_LEFT) = tb
           /\ TB_handle_input(tb, KEY_BACKSPACE) = tb

C17_Witness ==
    /\ wm_pc = "getch"
    /\ inp.max_length = 1 /\ Len(inp.text) = 1
    /\ ms.selected = Len(ms.options) - 1 /\ ms.selected > 0
    /\ tb.editable
    /\ TB_get_text(tb) # <<>>
    /\ tb.cursor_y = 1 /\ tb.cursor_x = 1 /\ tb.first_line_idx = 0

\* C21: in an editable TextBox a printable key puts its character into the
\* cursor's absolute line at index cursor_x - 1, and then: when cursor_x <
\* box_width, cursor_x grows by 1; otherwise, when cursor_y < box_height,
\* cursor_y grows by 1 and cursor_x is 1 with first_line_idx as it was;
\* otherwise first_line_idx grows by 1 and cursor_x is 1 with cursor_y as it
\* was.  Afterwards every line is at most box_width long.
C21_InsertionStep ==
    \A key \in TB_PrintableKeys :
        LET t == TB_handle_input(tb, key)
            idx == tb.first_line_idx + tb.cursor_y - 1
            line == tb.lines[idx + 1]
            new_line == PySlice(line, 0, tb.cursor_x - 1) \o <<chr(key)>>
                            \o PyFrom(line, tb.cursor_x - 1)
        IN  (tb.raised = None /\ tb.editable) =>
                /\ t.raised = None
                /\ idx + 1 \in 1..Len(tb.lines)
                /\ TB_get_text(t) =
                       TB_get_text([tb EXCEPT !.lines[idx + 1] = new_line])
                /\ IF tb.cursor_x < tb.box_width
                   THEN /\ t.cursor_x = tb.cursor_x + 1
                        /\ t.cursor_y = tb.cursor_y
                        /\ t.first_line_idx = tb.first_line_idx
                   ELSE IF tb.cursor_y < tb.box_height
                   THEN /\ t.cursor_x = 1
                        /\ t.cursor_y = tb.cursor_y + 1
                        /\ t.first_line_idx = tb.first_line_idx
                   ELSE /\ t.cursor_x = 1
                        /\ t.cursor_y = tb.cursor_y
                        /\ t.first_line_idx = tb.first_line_idx + 1
                /\ \A i \in 1..Len(t.lines) : Len(t.lines[i]) <= tb.box_width

\* C22: Down never moves past the content.  Whenever the cursor's absolute
\* line is the final line of the buffer, cursor_x - 1 <= len(final line); Down
\* pressed while the cursor is on the final line leaves cursor_y and
\* first_line_idx as they were; Up and Down change first_line_idx, by one,
\* only when the cursor is at the top / bottom visible row and more lines
\* exist in that direction.
C22_DownWithinContent ==
    LET up == TB_handle_input(tb, KEY_UP)
        down == TB_handle_input(tb, KEY_DOWN)
        abs_line == tb.first_line_idx + tb.cursor_y
    IN  tb.raised = None =>
            /\ abs_line = Len(tb.lines) =>
                   /\ tb.cursor_x - 1 <= Len(tb.lines[Len(tb.lines)])
                   /\ down.cursor_y = tb.cursor_y
                   /\ down.first_line_idx = tb.first_line_idx
            /\ up.first_line_idx # tb.first_line_idx =>
                   /\ up.first_line_idx = tb.first_line_idx - 1
                   /\ tb.cursor_y = 1
                   /\ tb.first_line_idx > 0
            /\ down.first_line_idx # tb.first_line_idx =>
                   /\ down.first_line_idx = tb.first_line_idx + 1
                   /\ tb.cursor_y = tb.box_height
                   /\ abs_line < Len(tb.lines)

\* The cursor's offset in the text: p = (first_line_idx + cursor_y - 1) *
\* box_width + (cursor_x - 1).
CursorOffset(s) ==
    (s.first_line_idx + s.cursor_y - 1) * s.box_width + (s.cursor_x - 1)

\* C23: Left at p = 0 and Right at p = len(get_text()) leave the cursor and
\* the scroll as they were; otherwise Left / Right change p by exactly -1 / +1,
\* scrolling by at most one line; so neither key takes p below 0 or above
\* len(get_text()).
C23_LeftRightBlocking ==
    LET left == TB_handle_input(tb, KEY_LEFT)
        right == TB_handle_input(tb, KEY_RIGHT)
        p == CursorOffset(tb)
        n == Len(TB_get_text(tb))
    IN  (tb.raised = None /\ p \in 0..n) =>
            /\ left.raised = None /\ right.raised = None
            /\ IF p = 0
               THEN SameCursor(left, tb)
               ELSE /\ CursorOffset(left) = p - 1
                    /\ left.first_line_idx \in
                           {tb.first_line_idx, tb.first_line_idx - 1}
            /\ IF p = n
               THEN SameCursor(right, tb)
               ELSE /\ CursorOffset(right) = p + 1
                    /\ right.first_line_idx \in
                           {tb.first_line_idx, tb.first_line_idx + 1}
            /\ CursorOffset(left) \in 0..n
            /\ CursorOffset(right) \in 0..n

\* C29: the cursor tracks the typed text.  In every reachable state of an
\* editable TextBox with cursor offset p, a printable key c gives the text
\* old[0..p) + c + old[p..) and the cursor offset p + 1, so the typed
\* character stands in get_text() immediately before the cursor.
C29_CursorTracksText ==
    \A key \in TB_PrintableKeys :
        LET t == TB_handle_input(tb, key)
            p == CursorOffset(tb)
            old == TB_get_text(tb)
            new == TB_get_text(t)
        IN  (tb.raised = None /\ tb.editable) =>
                /\ t.raised = None
                /\ p \in 0..Len(old)
                /\ new = SubSeq(old, 1, p) \o <<chr(key)>>
                             \o SubSeq(old, p + 1, Len(old))
                /\ CursorOffset(t) = p + 1
                /\ new[CursorOffset(t)] = chr(key)

\* The start lines the layout is asked for: MenuSelector.draw passes 0.
StartLines == {0, 1}

\* C26: for every alignment policy (left, center, right, manual) the vertical
\* multi-string layout of compute_strs_h_aligned returns exactly one
\* (row, col) per string, with row = start_line + i, and the column follows
\* the policy: left a fixed 1-column margin, center (width - len(s)) div 2,
\* right width - len(s) - 1.
C26_VerticalPositions ==
    \A alignment \in {LEFT, CENTER, RIGHT, MANUAL}, start_line \in StartLines :
        LET strings == MS_display_options(ms)
            r == compute_strs_h_aligned(ms.width, start_line, strings,
                                        VERTICAL, alignment)
            positions == r[1]
        IN  ms.raised = None =>
                /\ r # Nothing
                /\ Len(positions) = Len(strings)
                /\ \A i \in 1..Len(strings) :
                       /\ positions[i][1] = start_line + (i - 1)
                       /\ alignment = LEFT => positions[i][2] = 1
                       /\ alignment = CENTER =>
                              positions[i][2] =
                                  (ms.width - Len(strings[i])) \div 2
                       /\ alignment = RIGHT =>
                              positions[i][2] =
                                  ms.width - Len(strings[i]) - 1

\* C27: bounded paint stays in bounds.  On a window w >= 2 columns wide and h
\* rows high, every segment add_str_no_overflows paints is at most w - 2 long
\* (minus the column under manual alignment); it paints at most
\* 1 + extra_lines rows, consecutive from `line`; no continuation segment is
\* painted on a row >= h - 1; and with extra_lines = 0 exactly one row is
\* painted, the excess being dropped.
C27_PaintInBounds ==
    LET room == Max(0, IF pt.alignment = MANUAL
                       THEN pt.win_w - 2 - pt.col ELSE pt.win_w - 2)
    IN  pt.pc # "call" =>
            /\ \A i \in 1..Len(pt.calls) :
                   /\ Len(pt.calls[i][3]) <= room
                   /\ pt.calls[i][1] = pt.args.line + (i - 1)
                   /\ i > 1 => pt.calls[i][1] < pt.win_h - 1
            /\ Len(pt.calls) <= 1 + pt.args.extra_lines
            /\ pt.args.extra_lines = 0 =>
                   /\ Len(pt.calls) = 1
                   /\ pt.calls[1][3] = PySlice(pt.args.string, 0, room)

\* The rows a call may paint: the first one, and one more for each extra line
\* that lies above the bottom row h - 1 of the window.
RowsAllowed(s) ==
    1 + Min(s.args.extra_lines, Max(0, (s.win_h - 2) - s.args.line))

\* C28: add_str_no_overflows terminates, its loop running at most extra_lines
\* times; the segments it paints, joined in row order, are a prefix of the
\* string cut purely at available-width boundaries, and are the whole string
\* whenever the string fits in the rows allowed by extra_lines and the bottom
\* boundary; the value returned is the last painted row + 1.
C28_PaintResult ==
    LET painted == [i \in 1..Len(pt.calls) |-> pt.calls[i][3]]
        joined == Join(painted)
        string == pt.args.string
    IN  /\ pt.pc # "raised"
        /\ pt.passes <= pt.args.extra_lines
        /\ pt.pc = "done" =>
               /\ Len(pt.calls) >= 1
               /\ joined = SubSeq(string, 1, Len(joined))
               /\ \A i \in 1..(Len(painted) - 1) :
                      Len(painted[i]) = pt.available_cols
               /\ Len(string) <= pt.available_cols * RowsAllowed(pt) =>
                      joined = string
               /\ pt.ret = Some(pt.calls[Len(pt.calls)][1] + 1)

\* The columns of the parent window a field may start at: those that leave
\* room for its sub-window.
IF_Columns(s, win_cols) == {x \in 0..1 : x + s.win_width <= win_cols}

\* C30: for every label, every spacing >= 0 and every reachable buffer, what
\* InputField.draw paints (the label at column 0, then the display text) ends
\* strictly before the last column of the sub-window, i.e. text start column
\* + len(text) <= sub-window width - 1, and the caret column computed when
\* active is the column immediately after the text.
C30_RenderFits ==
    \A x \in IF_Columns(inp, if_args.win_cols) :
        LET d == IF_draw(inp, x, TRUE)
            label == d.calls[1]
            text == d.calls[2]
        IN  /\ label[2] = 0 /\ label[3] = inp.label
            /\ text[3] = inp.text
            /\ text[2] >= label[2] + Len(label[3])
            /\ text[2] + Len(text[3]) <= inp.win_width - 1
            /\ d.cursor_x = Some(x + text[2] + Len(text[3]))

\* The calls of one kind on a log, in order.
CallsOf(log, call) == SelectSeq(log, LAMBDA e : e.call = call)

\* The state of the widget of a kind among the objects o.
WidgetState(o, kind) ==
    CASE kind = "tb" -> <<o.tb>>
      [] kind = "ms" -> <<o.ms, o.ms_screen>>
      [] kind = "inp" -> <<o.inp>>

\* C24: in each pass of run's loop exactly one key is read; a Tab key is
\* handled by the manager alone and is passed to no widget's handle_input;
\* every other key is passed to handle_input of exactly one widget, the one at
\* active_selector, and the state of every other widget is as it was before
\* the pass.
C24_Dispatch ==
    wm_pc = "getch" =>
        \A key \in WM_Keys \cup {TAB} :
            \A r \in {WM_run_step(WM_objects, wm, key)} :
                LET handled == CallsOf(r.o.log, "handle_input")
                IN  /\ Len(CallsOf(r.o.log, "getch")) = 1
                    /\ r.o.log[1] = [call |-> "getch", key |-> key]
                    /\ IF key = TAB
                       THEN handled = <<>>
                       ELSE /\ handled =
                                  <<[call |-> "handle_input",
                                     widget |-> wm.active_selector,
                                     key |-> key]>>
                            /\ \A i \in 1..Len(wm.widgets) :
                                   i - 1 # wm.active_selector =>
                                       WidgetState(r.o, wm.widgets[i]) =
                                       WidgetState(WM_objects,
                                                   wm.widgets[i])

\* A manager of three widgets whose active one is the MenuSelector, reached
\* by Tab, reads a key that changes the menu's selection.
C24_Witness ==
    /\ wm_pc = "getch"
    /\ Len(wm.widgets) = 3
    /\ wm.widgets[wm.active_selector + 1] = "ms"
    /\ wm_tabs >= 1
    /\ \E key \in WM_Keys :
           /\ WM_run_step(WM_objects, wm, key).o.ms # ms
           /\ WM_run_step(WM_objects, wm, key).pc = "getch"

\* One draw call per widget of the manager m, in list order, is_active being
\* true for the widget at active_selector only.
DrawnOnceInOrder(m) ==
    [i \in 1..Len(m.widgets) |->
        [call |-> "draw", widget |-> i - 1,
         is_active |-> (i - 1 = m.active_selector)]]

\* C25: before every key read, the first included, and after the previous
\* key's state transition has completed, every registered widget has been
\* drawn exactly once, in list order, with is_active true for exactly the
\* widget at the current active_selector; no key is read between a state
\* transition and the redraw that follows it.
C25_DrawOrdering ==
    /\ wm_pc = "start" =>
           \A o \in {WM_draw_all(WM_objects, wm)} :
               o.raised = None => o.log = DrawnOnceInOrder(wm)
    /\ wm_pc = "getch" =>
           \A key \in WM_Keys \cup {TAB} :
               \A r \in {WM_run_step(WM_objects, wm, key)} :
                   LET log == r.o.log
                       n == Len(wm.widgets)
                   IN  r.pc = "getch" =>
                           /\ log[1].call = "getch"
                           /\ CallsOf(log, "draw") = DrawnOnceInOrder(r.m)
                           /\ SubSeq(log, Len(log) - n + 1, Len(log)) =
                                  DrawnOnceInOrder(r.m)
                           /\ Len(CallsOf(log, "getch")) = 1

\* run stands at getch with the last of three widgets active, after two Tab
\* keys and a key typed into the TextBox, the MenuSelector painted.
C25_Witness ==
    /\ wm_pc = "getch"
    /\ Len(wm.widgets) = 3
    /\ wm.active_selector = 2
    /\ Len(Join(tb.lines)) > 0
    /\ ms_screen # <<>>
    /\ WM_run_step(WM_objects, wm, TAB).pc = "getch"

====
